---- MODULE Spec2Model ----
(***************************************************************************)
(* The batch transcription job driver (docker/app/main.py, S3 mode): the   *)
(* job's task list, the output/video buckets, the results object, and the  *)
(* driver process stepping through main() and process_video() one stage at *)
(* a time.  A process can be killed at any step, interrupted inside the    *)
(* task loop, and started again on the same job.                           *)
(*                                                                         *)
(* Environment: metadata resolution and every pipeline stage (download,    *)
(* video upload, ffmpeg, transcription, output uploads) succeed or fail    *)
(* nondeterministically.  head_object on the output bucket and get/put of  *)
(* the results object answer truthfully in this specification.             *)
(* processed_at (a wall-clock timestamp) and the free-form task fields     *)
(* other than error are left out of the records.                           *)
(***************************************************************************)
EXTENDS Naturals, Integers, Sequences, FiniteSets, TLC

VARIABLES
    tasks,                 \* tasks.json of the job: sequence of Task
    tasks_object,          \* what the tasks.json object holds, if anything
    outs,                  \* keys present in the output bucket
    vids,                  \* keys present in the video bucket
    persisted,             \* results.json of the job: [exists, data]
    run,                   \* number of driver processes started so far
    pc,                    \* position of the driver process
    outcome,               \* how the last process ended
    exit_code,             \* its exit code: "0", "1", or "none" (running, killed)
    existing_results,      \* main: existing_results
    results,               \* main: results
    any_failures,          \* main: any_failures
    i,                     \* main: 1-based position of the loop in tasks
    result,                \* process_video: result
    attempt,               \* retrying: attempt number of the current stage
    transcription_outputs, \* process_video: which paths MST returned
    md_uploaded,           \* process_video: md_uploaded
    workspace,             \* the process holds a temporary directory
    faults,                \* environment faults injected so far
    log,                   \* history: per position of this run, what happened
    outs0,                 \* history: outs when this run started
    prev,                  \* history: outcome and results of the previous run
    checkpointed,          \* history: positions some run has checkpointed
    recorded,              \* history: positions persisted with status success
    recordedBefore,        \* history: recorded, as of the start of this run
    lost,                  \* history: what the job's storage lost, and when
    status_report,         \* client: what get_job_status returned last
    job_inputs,            \* config.json and resources.json of the job, and
                           \* how the last upload_tasks call ended
    foreign,               \* history: output keys another job has written
    id_probe,              \* client: the last url given to the two copies of
                           \* extract_video_id, and what they returned
    drivers                \* two driver processes on one job: each one's
                           \* loop state, and who wrote results.json last

vars ==
    <<tasks, tasks_object, outs, vids, persisted, run, pc, outcome, exit_code,
      existing_results, results, any_failures, i, result, attempt,
      transcription_outputs, md_uploaded, workspace, faults, log, outs0, prev,
      checkpointed, recorded, recordedBefore, lost, status_report,
      job_inputs, foreign, id_probe,
                   drivers>>

(***************************************************************************)
(* Bounds                                                                  *)
(***************************************************************************)
MaxTasks ==
    2

MaxRuns ==
    3

MaxFaults ==
    2

(***************************************************************************)
(* Program constants                                                       *)
(***************************************************************************)
IdLen ==
    11

MaxAttempts ==
    3

NoField == "<absent>"
NoId == <<>>

(***************************************************************************)
(* URLs.  A url is abstracted to the first recognisable marker in it and   *)
(* the characters that follow the marker.                                  *)
(***************************************************************************)
Pattern1 == {"youtube.com/watch?v=", "youtu.be/", "youtube.com/embed/"}
Pattern2 == {"youtube.com/v/"}
IdChars == {"a", "b", "_", "-", "0"}

Rep(c, n) == [k \in 1..n |-> c]

Matches(markers, url) ==
    /\ url.marker \in markers
    /\ Len(url.tail) >= IdLen
    /\ \A k \in 1..IdLen : url.tail[k] \in IdChars

extract_video_id(url) ==
    IF Matches(Pattern1, url) THEN SubSeq(url.tail, 1, IdLen)
    ELSE IF Matches(Pattern2, url) THEN SubSeq(url.tail, 1, IdLen)
    ELSE NoId

UrlA == [marker |-> "youtu.be/", tail |-> Rep("a", IdLen) \o <<"?", "t">>]
UrlB  == [marker |-> "youtube.com/v/", tail |-> Rep("b", IdLen)]
UrlBad == [marker |-> "youtube.com/watch?v=", tail |-> Rep("a", IdLen - 1)]

URLs == {UrlA, UrlB, UrlBad}

Task(u) == [url |-> u, error |-> NoField]

SeqsUpTo(S, n) == UNION {[1..k -> S] : k \in 1..n}

TaskLists == SeqsUpTo({Task(u) : u \in URLs}, MaxTasks)

(***************************************************************************)
(* Storage keys and the two idempotency sources                            *)
(***************************************************************************)
RealChannel == "chan"
Channels == {RealChannel, "unknown"}

md_key(channel, video_id) == <<channel, video_id, "md">>
json_key(channel, video_id) == <<channel, video_id, "json">>
video_s3_key(channel, video_id) == <<channel, video_id, "mp4">>

check_s3_object_exists(bucket, key) ==
    key \in bucket

\* Mutant of outputs_exist: one of the two objects is enough.
outputs_exist_either(bucket, channel, video_id) ==
    \/ check_s3_object_exists(bucket, md_key(channel, video_id))
    \/ check_s3_object_exists(bucket, json_key(channel, video_id))

outputs_exist(bucket, channel, video_id) ==
    /\ check_s3_object_exists(bucket, md_key(channel, video_id))
    /\ check_s3_object_exists(bucket, json_key(channel, video_id))

\* Mutants of already_processed: the scan looks for a status the driver never
\* writes; the scan takes a failed Result for a finished one.
already_processed_completed(prior, video_id) ==
    \E k \in 1..Len(prior) :
        /\ prior[k].video_id = video_id
        /\ prior[k].status = "completed"

already_processed_any_outcome(prior, video_id) ==
    \E k \in 1..Len(prior) :
        /\ prior[k].video_id = video_id
        /\ prior[k].status \in {"success", "failed"}

already_processed(prior, video_id) ==
    \E k \in 1..Len(prior) :
        /\ prior[k].video_id = video_id
        /\ prior[k].status = "success"

GateDecision(bucket, prior, channel, video_id) ==
    IF outputs_exist(bucket, channel, video_id) THEN "skip_outputs"
    ELSE IF already_processed(prior, video_id) THEN "skip_results"
    ELSE "run"

save_results(list) ==
    [exists |-> TRUE, data |-> list]

NoUrl == [marker |-> "", tail |-> <<>>]

NoResult == [url |-> NoUrl, error |-> NoField, video_id |-> NoId,
             status |-> "none", channel |-> NoField]

NoOutputs == [md |-> FALSE, json |-> FALSE]

NoLog == [channel |-> NoField, gate |-> "none", fault |-> "none",
          md_up |-> FALSE, json_up |-> FALSE, stages |-> {}]

NoLoss == [what |-> "none", run |-> 0]

NoReport == [status |-> "none"]

NoInputs == [config |-> NoField, resources |-> NoField, last |-> "none"]

NoProbe == [url |-> NoUrl]

NoDrivers == [proc |-> <<>>, last_writer |-> 0]

Running == pc \notin {"idle", "exited"}

Successes(list) == {k \in 1..Len(list) : list[k].status = "success"}

\* Environment faults are drawn from a budget of MaxFaults per behaviour.
Fault == faults < MaxFaults /\ faults' = faults + 1
NoFault == faults' = faults

jobVars ==
    <<tasks, tasks_object, run, status_report, job_inputs, id_probe, drivers>>
mainVars == <<existing_results, results, any_failures, i>>
exitVars == <<outcome, exit_code>>
stageVars == <<attempt, transcription_outputs, md_uploaded>>
histVars ==
    <<outs0, prev, checkpointed, recorded, recordedBefore, lost, foreign>>

\* str(e) of the exception each failing stage raises
ErrorMessage(fault) ==
    CASE fault = "download" -> "download failed"
      [] fault = "upload_video" -> "Failed to upload video to S3"
      [] fault = "extract" -> "ffmpeg failed"
      [] fault = "transcribe" -> "MST transcription failed"
      [] OTHER -> "Failed to upload transcription outputs to S3"

Note(stage, fault) ==
    [log EXCEPT ![i].stages = @ \cup {stage}, ![i].fault = fault]

\* Mutant of Fail: the handler sets the status and drops the message.
Fail_without_message(msg) ==
    /\ result' = [result EXCEPT !.status = "failed"]
    /\ workspace' = FALSE
    /\ pc' = "pv_return"

\* The "except Exception" of process_video; leaving the with block removes
\* the temporary directory.
Fail(msg) ==
    /\ result' = [result EXCEPT !.status = "failed", !.error = msg]
    /\ workspace' = FALSE
    /\ pc' = "pv_return"

(***************************************************************************)
(* Initial state: a job whose task list has been written; no process yet.  *)
(***************************************************************************)
Init ==
    /\ tasks \in TaskLists
    /\ tasks_object = "array"
    /\ outs = {}
    /\ vids = {}
    /\ persisted = [exists |-> FALSE, data |-> <<>>]
    /\ run = 0
    /\ pc = "idle"
    /\ outcome = "none"
    /\ exit_code = "none"
    /\ existing_results = <<>>
    /\ results = <<>>
    /\ any_failures = FALSE
    /\ i = 1
    /\ result = NoResult
    /\ attempt = 1
    /\ transcription_outputs = NoOutputs
    /\ md_uploaded = FALSE
    /\ workspace = FALSE
    /\ faults = 0
    /\ log = <<>>
    /\ outs0 = {}
    /\ prev = [outcome |-> "none", success |-> {}]
    /\ checkpointed = {}
    /\ recorded = {}
    /\ recordedBefore = {}
    /\ lost = NoLoss
    /\ foreign = {}
    /\ id_probe = NoProbe
    /\ drivers = NoDrivers
    /\ status_report = NoReport
    /\ job_inputs = NoInputs

(***************************************************************************)
(* main(): start of a process, up to the task loop                         *)
(***************************************************************************)
\* What the tasks.json object can be: a JSON array, no object at all, text
\* that is no JSON, or JSON of another type.
TasksObjectKinds ==
    {"array", "absent", "invalid_json", "object", "string", "number", "null"}

\* Lines 442-456 and 509-512 of main: the download, load_json_file with
\* required=True, the len(tasks) of the log line, the isinstance check.
\* fetched is FALSE when the storage backend fails the download.
LoadTasks(kind, fetched) ==
    IF kind = "absent" \/ ~fetched THEN "download_failed"
    ELSE IF kind = "invalid_json" THEN "load_failed"
    ELSE IF kind \in {"number", "null"} THEN "len_raises"
    ELSE IF kind # "array" THEN "not_a_list"
    ELSE "ok"

\* Mutant of StartRun: whatever was fetched is taken for the task list.
StartRun_unvalidated ==
    /\ pc \in {"idle", "exited"}
    /\ run < MaxRuns
    /\ run' = run + 1
    /\ existing_results' = IF persisted.exists THEN persisted.data ELSE <<>>
    /\ results' = <<>>
    /\ any_failures' = FALSE
    /\ i' = 1
    /\ pc' = "loop"
    /\ outcome' = "none"
    /\ exit_code' = "none"
    /\ result' = NoResult
    /\ workspace' = FALSE
    /\ log' = <<>>
    /\ outs0' = outs
    /\ prev' = [outcome |-> outcome, success |-> Successes(results)]
    /\ recordedBefore' = recorded
    /\ UNCHANGED <<tasks, tasks_object, outs, vids, persisted, stageVars,
                   faults, checkpointed, recorded, lost, status_report,
                   job_inputs, foreign, id_probe,
                   drivers>>

StartRun ==
    /\ pc \in {"idle", "exited"}
    /\ run < MaxRuns
    /\ LoadTasks(tasks_object, TRUE) = "ok"
    /\ run' = run + 1
    /\ existing_results' = IF persisted.exists THEN persisted.data ELSE <<>>
    /\ results' = <<>>
    /\ any_failures' = FALSE
    /\ i' = 1
    /\ pc' = "loop"
    /\ outcome' = "none"
    /\ exit_code' = "none"
    /\ result' = NoResult
    /\ workspace' = FALSE
    /\ log' = <<>>
    /\ outs0' = outs
    /\ prev' = [outcome |-> outcome, success |-> Successes(results)]
    /\ recordedBefore' = recorded
    /\ UNCHANGED <<tasks, tasks_object, outs, vids, persisted, stageVars,
                   faults, checkpointed, recorded, lost, status_report,
                   job_inputs, foreign, id_probe,
                   drivers>>

(***************************************************************************)
(* process_video(): entry, metadata, idempotency gate                      *)
(***************************************************************************)
ProcessVideoStart ==
    /\ pc = "loop"
    /\ i <= Len(tasks)
    /\ extract_video_id(tasks[i].url) # NoId
    /\ result' = [url |-> tasks[i].url, error |-> tasks[i].error,
                  video_id |-> extract_video_id(tasks[i].url),
                  status |-> "processing", channel |-> NoField]
    /\ log' = Append(log, NoLog)
    /\ pc' = "pv_meta"
    /\ UNCHANGED <<jobVars, outs, vids, persisted, mainVars, exitVars,
                   stageVars, workspace, faults, histVars>>

\* extract_video_id raises before the try block of process_video: the
\* ValueError reaches main's "except Exception", which saves and exits 1.
ProcessVideoRaises ==
    /\ pc = "loop"
    /\ i <= Len(tasks)
    /\ extract_video_id(tasks[i].url) = NoId
    /\ persisted' = save_results(results)
    /\ outcome' = "error"
    /\ exit_code' = "1"
    /\ pc' = "exited"
    /\ UNCHANGED <<jobVars, outs, vids, mainVars, result, stageVars,
                   workspace, faults, log, histVars>>

\* Mutant of GetMetadata: a failed lookup fails the task.
GetMetadata_fails_task ==
    /\ pc = "pv_meta"
    /\ \E channel \in Channels :
        /\ IF channel = RealChannel THEN NoFault ELSE Fault
        /\ log' = [log EXCEPT ![i].channel = channel]
        /\ IF channel = RealChannel
           THEN /\ result' = [result EXCEPT !.channel = channel]
                /\ pc' = "pv_gate"
           ELSE /\ result' = [result EXCEPT !.channel = channel,
                                            !.status = "failed",
                                            !.error = "metadata failed"]
                /\ pc' = "pv_return"
    /\ UNCHANGED <<jobVars, outs, vids, persisted, mainVars, exitVars,
                   stageVars, workspace, histVars>>

\* get_video_metadata: the uploader, or "unknown" when the lookup fails
GetMetadata ==
    /\ pc = "pv_meta"
    /\ \E channel \in Channels :
        /\ IF channel = RealChannel THEN NoFault ELSE Fault
        /\ result' = [result EXCEPT !.channel = channel]
        /\ log' = [log EXCEPT ![i].channel = channel]
    /\ pc' = "pv_gate"
    /\ UNCHANGED <<jobVars, outs, vids, persisted, mainVars, exitVars,
                   stageVars, workspace, histVars>>

\* Mutant of Gate: the temporary directory is created before the checks.
Gate_workspace_first ==
    /\ pc = "pv_gate"
    /\ LET d == GateDecision(outs, existing_results, result.channel,
                             result.video_id)
       IN /\ log' = [log EXCEPT ![i].gate = d]
          /\ workspace' = TRUE
          /\ IF d = "run"
             THEN /\ pc' = "pv_download"
                  /\ UNCHANGED result
             ELSE /\ result' = [result EXCEPT !.status = "skipped"]
                  /\ pc' = "pv_return"
    /\ UNCHANGED <<jobVars, outs, vids, persisted, mainVars, exitVars,
                   stageVars, faults, histVars>>

\* Mutant of Gate: a skipped task goes straight to the next one and leaves
\* no Result.
Gate_skip_without_result ==
    /\ pc = "pv_gate"
    /\ LET d == GateDecision(outs, existing_results, result.channel,
                             result.video_id)
       IN /\ log' = [log EXCEPT ![i].gate = d]
          /\ IF d = "run"
             THEN /\ workspace' = TRUE
                  /\ pc' = "pv_download"
                  /\ UNCHANGED <<result, i>>
             ELSE /\ result' = NoResult
                  /\ i' = i + 1
                  /\ pc' = "loop"
                  /\ UNCHANGED workspace
    /\ UNCHANGED <<jobVars, outs, vids, persisted, existing_results,
                   results, any_failures, exitVars, stageVars, faults,
                   histVars>>

Gate ==
    /\ pc = "pv_gate"
    /\ LET d == GateDecision(outs, existing_results, result.channel,
                             result.video_id)
       IN /\ log' = [log EXCEPT ![i].gate = d]
          /\ IF d = "run"
             THEN /\ workspace' = TRUE
                  /\ pc' = "pv_download"
                  /\ UNCHANGED result
             ELSE /\ result' = [result EXCEPT !.status = "skipped"]
                  /\ pc' = "pv_return"
                  /\ UNCHANGED workspace
    /\ UNCHANGED <<jobVars, outs, vids, persisted, mainVars, exitVars,
                   stageVars, faults, histVars>>

(***************************************************************************)
(* process_video(): the pipeline stages, inside the temporary directory    *)
(***************************************************************************)
\* Mutant of Retried: the decorator stops after five attempts.
Retried_five_attempts(stage, next) ==
    \E ok \in BOOLEAN :
        IF ok
        THEN /\ NoFault
             /\ log' = Note(stage, "none")
             /\ attempt' = 1
             /\ pc' = next
             /\ UNCHANGED <<result, workspace>>
        ELSE /\ IF attempt = 1 THEN Fault ELSE NoFault
             /\ IF attempt < 5
                THEN /\ log' = Note(stage, "none")
                     /\ attempt' = attempt + 1
                     /\ UNCHANGED <<result, workspace, pc>>
                ELSE /\ log' = Note(stage, stage)
                     /\ attempt' = 1
                     /\ Fail(ErrorMessage(stage))

\* One attempt of a stage under @retry(stop_max_attempt_number=3): on
\* success go to `next`; on failure try again, and raise after the last.
Retried(stage, next) ==
    \E ok \in BOOLEAN :
        IF ok
        THEN /\ NoFault
             /\ log' = Note(stage, "none")
             /\ attempt' = 1
             /\ pc' = next
             /\ UNCHANGED <<result, workspace>>
        ELSE /\ IF attempt = 1 THEN Fault ELSE NoFault
             /\ IF attempt < MaxAttempts
                THEN /\ log' = Note(stage, "none")
                     /\ attempt' = attempt + 1
                     /\ UNCHANGED <<result, workspace, pc>>
                ELSE /\ log' = Note(stage, stage)
                     /\ attempt' = 1
                     /\ Fail(ErrorMessage(stage))

Download ==
    /\ pc = "pv_download"
    /\ Retried("download", "pv_upload_video")
    /\ UNCHANGED <<jobVars, outs, vids, persisted, mainVars, exitVars,
                   transcription_outputs, md_uploaded, histVars>>

\* Mutant of UploadVideo: a failed upload is logged and the pipeline goes on.
UploadVideo_ignores_failure ==
    /\ pc = "pv_upload_video"
    /\ \E ok \in BOOLEAN :
        IF ok
        THEN /\ NoFault
             /\ vids' = vids \cup
                    {video_s3_key(result.channel, result.video_id)}
             /\ log' = Note("upload_video", "none")
        ELSE /\ Fault
             /\ log' = Note("upload_video", "upload_video")
             /\ UNCHANGED vids
    /\ pc' = "pv_extract"
    /\ UNCHANGED <<jobVars, outs, persisted, mainVars, exitVars, stageVars,
                   result, workspace, histVars>>

UploadVideo ==
    /\ pc = "pv_upload_video"
    /\ \E ok \in BOOLEAN :
        IF ok
        THEN /\ NoFault
             /\ vids' = vids \cup
                    {video_s3_key(result.channel, result.video_id)}
             /\ log' = Note("upload_video", "none")
             /\ pc' = "pv_extract"
             /\ UNCHANGED <<result, workspace>>
        ELSE /\ Fault
             /\ log' = Note("upload_video", "upload_video")
             /\ Fail(ErrorMessage("upload_video"))
             /\ UNCHANGED vids
    /\ UNCHANGED <<jobVars, outs, persisted, mainVars, exitVars, stageVars,
                   histVars>>

ExtractAudio ==
    /\ pc = "pv_extract"
    /\ Retried("extract", "pv_transcribe")
    /\ UNCHANGED <<jobVars, outs, vids, persisted, mainVars, exitVars,
                   transcription_outputs, md_uploaded, histVars>>

\* Mutant of Transcribe: a failed transcription is attempted again, like a
\* download.
Transcribe_retried ==
    /\ pc = "pv_transcribe"
    /\ \/ /\ IF attempt = 1 THEN Fault ELSE NoFault
          /\ IF attempt < MaxAttempts
             THEN /\ log' = Note("transcribe", "none")
                  /\ attempt' = attempt + 1
                  /\ UNCHANGED <<result, workspace, pc>>
             ELSE /\ log' = Note("transcribe", "transcribe")
                  /\ attempt' = 1
                  /\ Fail(ErrorMessage("transcribe"))
          /\ UNCHANGED transcription_outputs
       \/ /\ \E md \in BOOLEAN, json \in BOOLEAN :
                /\ transcription_outputs' = [md |-> md, json |-> json]
                /\ IF md /\ json THEN NoFault ELSE Fault
          /\ log' = Note("transcribe", "none")
          /\ attempt' = 1
          /\ pc' = "pv_upload_md"
          /\ UNCHANGED <<result, workspace>>
    /\ UNCHANGED <<jobVars, outs, vids, persisted, mainVars, exitVars,
                   md_uploaded, histVars>>

\* transcribe_audio: MST raises, or returns a dict whose two paths may be None
Transcribe ==
    /\ pc = "pv_transcribe"
    /\ \/ /\ Fault
          /\ log' = Note("transcribe", "transcribe")
          /\ Fail(ErrorMessage("transcribe"))
          /\ UNCHANGED transcription_outputs
       \/ /\ \E md \in BOOLEAN, json \in BOOLEAN :
                /\ transcription_outputs' = [md |-> md, json |-> json]
                /\ IF md /\ json THEN NoFault ELSE Fault
          /\ log' = Note("transcribe", "none")
          /\ pc' = "pv_upload_md"
          /\ UNCHANGED <<result, workspace>>
    /\ UNCHANGED <<jobVars, outs, vids, persisted, mainVars, exitVars,
                   attempt, md_uploaded, histVars>>

UploadMarkdown ==
    /\ pc = "pv_upload_md"
    /\ IF transcription_outputs.md
       THEN \E ok \in BOOLEAN :
            /\ IF ok THEN NoFault ELSE Fault
            /\ md_uploaded' = ok
            /\ outs' = IF ok
                       THEN outs \cup {md_key(result.channel, result.video_id)}
                       ELSE outs
            /\ log' = [Note("upload_md", "none") EXCEPT ![i].md_up = ok]
       ELSE /\ md_uploaded' = FALSE
            /\ UNCHANGED <<outs, log, faults>>
    /\ pc' = "pv_upload_json"
    /\ UNCHANGED <<jobVars, vids, persisted, mainVars, exitVars, result,
                   attempt, transcription_outputs, workspace, histVars>>

\* Mutant of UploadJson: the markdown upload is not looked at.
UploadJson_md_not_required ==
    /\ pc = "pv_upload_json"
    /\ \E ok \in (IF transcription_outputs.json THEN BOOLEAN ELSE {FALSE}) :
        /\ IF ok \/ ~transcription_outputs.json THEN NoFault ELSE Fault
        /\ outs' = IF ok
                   THEN outs \cup {json_key(result.channel, result.video_id)}
                   ELSE outs
        /\ LET noted == IF transcription_outputs.json
                        THEN Note("upload_json", "none") ELSE log
           IN IF ok
              THEN /\ log' = [noted EXCEPT ![i].json_up = ok]
                   /\ result' = [result EXCEPT !.status = "success"]
                   /\ workspace' = FALSE
                   /\ pc' = "pv_return"
              ELSE /\ log' = [noted EXCEPT ![i].json_up = ok,
                                           ![i].fault = "upload_outputs"]
                   /\ Fail(ErrorMessage("upload_outputs"))
    /\ md_uploaded' = FALSE
    /\ transcription_outputs' = NoOutputs
    /\ UNCHANGED <<jobVars, vids, persisted, mainVars, exitVars, attempt,
                   histVars>>

\* the JSON upload, then "if not (md_uploaded and json_uploaded): raise"
UploadJson ==
    /\ pc = "pv_upload_json"
    /\ \E ok \in (IF transcription_outputs.json THEN BOOLEAN ELSE {FALSE}) :
        /\ IF ok \/ ~transcription_outputs.json THEN NoFault ELSE Fault
        /\ outs' = IF ok
                   THEN outs \cup {json_key(result.channel, result.video_id)}
                   ELSE outs
        /\ LET noted == IF transcription_outputs.json
                        THEN Note("upload_json", "none") ELSE log
           IN IF md_uploaded /\ ok
              THEN /\ log' = [noted EXCEPT ![i].json_up = ok]
                   /\ result' = [result EXCEPT !.status = "success"]
                   /\ workspace' = FALSE
                   /\ pc' = "pv_return"
              ELSE /\ log' = [noted EXCEPT ![i].json_up = ok,
                                           ![i].fault = "upload_outputs"]
                   /\ Fail(ErrorMessage("upload_outputs"))
    /\ md_uploaded' = FALSE
    /\ transcription_outputs' = NoOutputs
    /\ UNCHANGED <<jobVars, vids, persisted, mainVars, exitVars, attempt,
                   histVars>>

(***************************************************************************)
(* main(): the rest of the loop body, the end of the loop, the handlers    *)
(***************************************************************************)
\* Mutant of Checkpoint: the new Result takes the place of the last one.
Checkpoint_overwrites_last ==
    /\ pc = "pv_return"
    /\ results' = IF results = <<>>
                  THEN <<result>>
                  ELSE [results EXCEPT ![Len(results)] = result]
    /\ any_failures' = (any_failures \/ result.status = "failed")
    /\ persisted' = save_results(results')
    /\ checkpointed' = checkpointed \cup {i}
    /\ recorded' = IF result.status = "success"
                   THEN recorded \cup {i} ELSE recorded
    /\ i' = i + 1
    /\ result' = NoResult
    /\ pc' = "loop"
    /\ UNCHANGED <<jobVars, outs, vids, existing_results, exitVars,
                   stageVars, workspace, faults, log, outs0, prev,
                   recordedBefore, lost, foreign>>

\* Mutant of Checkpoint: the new Result is appended to the stored list.
Checkpoint_appends_to_stored ==
    /\ pc = "pv_return"
    /\ results' = Append(results, result)
    /\ any_failures' = (any_failures \/ result.status = "failed")
    /\ persisted' = [exists |-> TRUE, data |-> Append(persisted.data, result)]
    /\ checkpointed' = checkpointed \cup {i}
    /\ recorded' = IF result.status = "success"
                   THEN recorded \cup {i} ELSE recorded
    /\ i' = i + 1
    /\ result' = NoResult
    /\ pc' = "loop"
    /\ UNCHANGED <<jobVars, outs, vids, existing_results, exitVars,
                   stageVars, workspace, faults, log, outs0, prev,
                   recordedBefore, lost, foreign>>

\* Mutants of Checkpoint: a failed task ends the run; a skipped task is
\* appended but not saved.
Checkpoint_stops_on_failure ==
    /\ pc = "pv_return"
    /\ results' = Append(results, result)
    /\ any_failures' = (any_failures \/ result.status = "failed")
    /\ persisted' = save_results(results')
    /\ checkpointed' = checkpointed \cup {i}
    /\ recorded' = IF result.status = "success"
                   THEN recorded \cup {i} ELSE recorded
    /\ i' = i + 1
    /\ result' = NoResult
    /\ IF result.status = "failed"
       THEN pc' = "exited" /\ outcome' = "error" /\ exit_code' = "1"
       ELSE pc' = "loop" /\ UNCHANGED exitVars
    /\ UNCHANGED <<jobVars, outs, vids, existing_results, stageVars,
                   workspace, faults, log, outs0, prev, recordedBefore,
                   lost, foreign>>

Checkpoint_saves_work_only ==
    /\ pc = "pv_return"
    /\ results' = Append(results, result)
    /\ any_failures' = (any_failures \/ result.status = "failed")
    /\ persisted' = IF result.status = "skipped"
                    THEN persisted ELSE save_results(results')
    /\ checkpointed' = checkpointed \cup {i}
    /\ recorded' = IF result.status = "success"
                   THEN recorded \cup {i} ELSE recorded
    /\ i' = i + 1
    /\ result' = NoResult
    /\ pc' = "loop"
    /\ UNCHANGED <<jobVars, outs, vids, existing_results, exitVars,
                   stageVars, workspace, faults, log, outs0, prev,
                   recordedBefore, lost,
                   foreign>>

\* results.append(result); any_failures; save_results(results, ...)
Checkpoint ==
    /\ pc = "pv_return"
    /\ results' = Append(results, result)
    /\ any_failures' = (any_failures \/ result.status = "failed")
    /\ persisted' = save_results(results')
    /\ checkpointed' = checkpointed \cup {i}
    /\ recorded' = IF result.status = "success"
                   THEN recorded \cup {i} ELSE recorded
    /\ i' = i + 1
    /\ result' = NoResult
    /\ pc' = "loop"
    /\ UNCHANGED <<jobVars, outs, vids, existing_results, exitVars,
                   stageVars, workspace, faults, log, outs0, prev,
                   recordedBefore, lost,
                   foreign>>

\* Mutant of Finish: the exit code does not look at any_failures.
Finish_always_zero ==
    /\ pc = "loop"
    /\ i > Len(tasks)
    /\ persisted' = save_results(results)
    /\ outcome' = "completed"
    /\ exit_code' = "0"
    /\ pc' = "exited"
    /\ UNCHANGED <<jobVars, outs, vids, mainVars, result, stageVars,
                   workspace, faults, log, histVars>>

\* the loop is exhausted: summary, final save, sys.exit
Finish ==
    /\ pc = "loop"
    /\ i > Len(tasks)
    /\ persisted' = save_results(results)
    /\ outcome' = "completed"
    /\ exit_code' = IF any_failures THEN "1" ELSE "0"
    /\ pc' = "exited"
    /\ UNCHANGED <<jobVars, outs, vids, mainVars, result, stageVars,
                   workspace, faults, log, histVars>>

\* Mutant of Interrupt: the handler appends the Result of the task it cut
\* short before the save.
Interrupt_saves_in_flight ==
    /\ pc \in {"loop", "pv_meta", "pv_gate", "pv_download",
               "pv_upload_video", "pv_extract", "pv_transcribe",
               "pv_upload_md", "pv_upload_json", "pv_return"}
    /\ Fault
    /\ persisted' = save_results(IF result = NoResult THEN results
                                 ELSE Append(results, result))
    /\ workspace' = FALSE
    /\ outcome' = "interrupt"
    /\ exit_code' = "1"
    /\ pc' = "exited"
    /\ result' = NoResult
    /\ attempt' = 1
    /\ transcription_outputs' = NoOutputs
    /\ md_uploaded' = FALSE
    /\ UNCHANGED <<jobVars, outs, vids, mainVars, log, histVars>>

\* Mutant of Interrupt: the handler exits without the save.
Interrupt_without_save ==
    /\ pc \in {"loop", "pv_meta", "pv_gate", "pv_download",
               "pv_upload_video", "pv_extract", "pv_transcribe",
               "pv_upload_md", "pv_upload_json", "pv_return"}
    /\ Fault
    /\ workspace' = FALSE
    /\ outcome' = "interrupt"
    /\ exit_code' = "1"
    /\ pc' = "exited"
    /\ result' = NoResult
    /\ attempt' = 1
    /\ transcription_outputs' = NoOutputs
    /\ md_uploaded' = FALSE
    /\ UNCHANGED <<jobVars, outs, vids, persisted, mainVars, log, histVars>>

\* Mutant of Interrupt: the temporary directory is left behind.
Interrupt_leaves_workspace ==
    /\ pc \in {"loop", "pv_meta", "pv_gate", "pv_download",
               "pv_upload_video", "pv_extract", "pv_transcribe",
               "pv_upload_md", "pv_upload_json", "pv_return"}
    /\ Fault
    /\ persisted' = save_results(results)
    /\ outcome' = "interrupt"
    /\ exit_code' = "1"
    /\ pc' = "exited"
    /\ result' = NoResult
    /\ attempt' = 1
    /\ transcription_outputs' = NoOutputs
    /\ md_uploaded' = FALSE
    /\ UNCHANGED <<jobVars, outs, vids, mainVars, workspace, log, histVars>>

\* KeyboardInterrupt inside the try of the loop; it is no Exception, so the
\* handler of process_video does not catch it.  The with block still removes
\* the temporary directory on the way out.
Interrupt ==
    /\ pc \in {"loop", "pv_meta", "pv_gate", "pv_download",
               "pv_upload_video", "pv_extract", "pv_transcribe",
               "pv_upload_md", "pv_upload_json", "pv_return"}
    /\ Fault
    /\ persisted' = save_results(results)
    /\ workspace' = FALSE
    /\ outcome' = "interrupt"
    /\ exit_code' = "1"
    /\ pc' = "exited"
    /\ result' = NoResult
    /\ attempt' = 1
    /\ transcription_outputs' = NoOutputs
    /\ md_uploaded' = FALSE
    /\ UNCHANGED <<jobVars, outs, vids, mainVars, log, histVars>>

\* the process is killed (SIGKILL, node loss): nothing more is written, and
\* what the process held in memory is gone
Kill ==
    /\ pc \notin {"idle", "exited"}
    /\ Fault
    /\ outcome' = "killed"
    /\ exit_code' = "none"
    /\ pc' = "exited"
    /\ result' = NoResult
    /\ attempt' = 1
    /\ transcription_outputs' = NoOutputs
    /\ md_uploaded' = FALSE
    /\ UNCHANGED <<jobVars, outs, vids, persisted, mainVars, workspace, log,
                   histVars>>

Next ==
    \/ StartRun
    \/ ProcessVideoStart
    \/ ProcessVideoRaises
    \/ GetMetadata
    \/ Gate
    \/ Download
    \/ UploadVideo
    \/ ExtractAudio
    \/ Transcribe
    \/ UploadMarkdown
    \/ UploadJson
    \/ Checkpoint
    \/ Finish
    \/ Interrupt
    \/ Kill

Spec ==
    Init /\ [][Next]_vars

(***************************************************************************)
(* Storage loss between two driver processes: the output objects of the    *)
(* job disappear from the output bucket (head_object then answers 404), or *)
(* the results object does (main then starts from no existing results).    *)
(* One loss per behaviour, after some task was persisted with success.     *)
(***************************************************************************)
LoseOutputs ==
    /\ pc = "exited"
    /\ lost = NoLoss
    /\ recorded # {}
    /\ outs # {}
    /\ Fault
    /\ outs' = {}
    /\ lost' = [what |-> "outputs", run |-> run]
    /\ UNCHANGED <<jobVars, vids, persisted, pc, mainVars, exitVars, result,
                   stageVars, workspace, log, outs0, prev, checkpointed,
                   recorded, recordedBefore, foreign>>

LoseResults ==
    /\ pc = "exited"
    /\ lost = NoLoss
    /\ recorded # {}
    /\ persisted.exists
    /\ Fault
    /\ persisted' = [exists |-> FALSE, data |-> <<>>]
    /\ lost' = [what |-> "results", run |-> run]
    /\ UNCHANGED <<jobVars, outs, vids, pc, mainVars, exitVars, result,
                   stageVars, workspace, log, outs0, prev, checkpointed,
                   recorded, recordedBefore, foreign>>

NextLoss ==
    \/ Next
    \/ LoseOutputs
    \/ LoseResults

SpecLoss ==
    Init /\ [][NextLoss]_vars

(***************************************************************************)
(* A second job whose driver runs with the same buckets and S3_PREFIX: it  *)
(* builds its keys with the same md_key and json_key, which take no job    *)
(* id.  Its successful processing of one video is one step here, between   *)
(* two processes of the job under study.                                   *)
(***************************************************************************)
VideoIds == {extract_video_id(u) : u \in URLs} \ {NoId}

OtherJobUploads ==
    /\ pc \in {"idle", "exited"}
    /\ foreign = {}
    /\ Fault
    /\ \E channel \in Channels, video_id \in VideoIds :
        LET written == {md_key(channel, video_id),
                        json_key(channel, video_id)}
        IN /\ outs' = outs \cup written
           /\ vids' = vids \cup {video_s3_key(channel, video_id)}
           /\ foreign' = written
    /\ UNCHANGED <<jobVars, persisted, pc, mainVars, exitVars, result,
                   stageVars, workspace, log, outs0, prev, checkpointed,
                   recorded, recordedBefore, lost>>

NextJobs ==
    \/ Next
    \/ OtherJobUploads

SpecJobs ==
    Init /\ [][NextJobs]_vars

(***************************************************************************)
(* A storage backend that can fail a request (a ClientError other than     *)
(* 404, or a connection error on a download).  check_s3_object_exists and  *)
(* download_json_from_s3 answer False for it, as they do for 404.          *)
(***************************************************************************)
BackendAnswers == {"ok", "error"}

head_object(bucket, key, backend) ==
    IF backend = "error" THEN "error"
    ELSE IF key \in bucket THEN "200" ELSE "404"

check_s3_object_exists_on(bucket, key, backend) ==
    head_object(bucket, key, backend) = "200"

download_json_from_s3(stored, backend) ==
    backend = "ok" /\ stored.exists

GateDecisionOn(bucket, prior, channel, video_id, b_md, b_json) ==
    IF /\ check_s3_object_exists_on(bucket, md_key(channel, video_id), b_md)
       /\ check_s3_object_exists_on(bucket, json_key(channel, video_id),
                                    b_json)
    THEN "skip_outputs"
    ELSE IF already_processed(prior, video_id) THEN "skip_results"
    ELSE "run"

\* the gate of process_video when head_object fails for one of the two keys
GateBackendError ==
    /\ pc = "pv_gate"
    /\ Fault
    /\ \E b_md \in BackendAnswers, b_json \in BackendAnswers :
        /\ "error" \in {b_md, b_json}
        /\ LET d == GateDecisionOn(outs, existing_results, result.channel,
                                   result.video_id, b_md, b_json)
           IN /\ log' = [log EXCEPT ![i].gate = d]
              /\ IF d = "run"
                 THEN /\ workspace' = TRUE
                      /\ pc' = "pv_download"
                      /\ UNCHANGED result
                 ELSE /\ result' = [result EXCEPT !.status = "skipped"]
                      /\ pc' = "pv_return"
                      /\ UNCHANGED workspace
    /\ UNCHANGED <<jobVars, outs, vids, persisted, mainVars, exitVars,
                   stageVars, histVars>>

\* the start of a process whose download of results.json fails
StartRunResultsError ==
    /\ pc \in {"idle", "exited"}
    /\ run < MaxRuns
    /\ LoadTasks(tasks_object, TRUE) = "ok"
    /\ persisted.exists
    /\ Fault
    /\ run' = run + 1
    /\ existing_results' = IF download_json_from_s3(persisted, "error")
                           THEN persisted.data ELSE <<>>
    /\ results' = <<>>
    /\ any_failures' = FALSE
    /\ i' = 1
    /\ pc' = "loop"
    /\ outcome' = "none"
    /\ exit_code' = "none"
    /\ result' = NoResult
    /\ workspace' = FALSE
    /\ log' = <<>>
    /\ outs0' = outs
    /\ prev' = [outcome |-> outcome, success |-> Successes(results)]
    /\ recordedBefore' = recorded
    /\ UNCHANGED <<tasks, tasks_object, outs, vids, persisted, stageVars,
                   checkpointed, recorded, lost, status_report,
                   job_inputs, foreign, id_probe,
                   drivers>>

NextBackend ==
    \/ Next
    \/ GateBackendError
    \/ StartRunResultsError

SpecBackend ==
    Init /\ [][NextBackend]_vars

\* No driver process has run on the job and nothing is stored for it.
NoProcess ==
    /\ outs = {}
    /\ vids = {}
    /\ run = 0
    /\ pc = "idle"
    /\ outcome = "none"
    /\ exit_code = "none"
    /\ existing_results = <<>>
    /\ results = <<>>
    /\ any_failures = FALSE
    /\ i = 1
    /\ result = NoResult
    /\ attempt = 1
    /\ transcription_outputs = NoOutputs
    /\ md_uploaded = FALSE
    /\ workspace = FALSE
    /\ faults = 0
    /\ log = <<>>
    /\ outs0 = {}
    /\ prev = [outcome |-> "none", success |-> {}]
    /\ checkpointed = {}
    /\ recorded = {}
    /\ recordedBefore = {}
    /\ lost = NoLoss
    /\ foreign = {}
    /\ id_probe = NoProbe
    /\ drivers = NoDrivers

(***************************************************************************)
(* The client's S3BatchManager.get_job_status over the results object of a *)
(* job.  It reads only the status of each entry; an entry may carry any    *)
(* status or none.  download_results answers truthfully here (None for a   *)
(* missing object).  progress, a float quotient of two small counts, is    *)
(* kept as the pair of the counts; 0.0 is 0 over 1.                        *)
(***************************************************************************)
MaxResults ==
    3

Statuses == {"success", "failed", "skipped", "processing", NoField}

Entry(s) == [status |-> s]

ResultLists == {<<>>} \cup SeqsUpTo({Entry(s) : s \in Statuses}, MaxResults)

Count(list, s) == Cardinality({k \in 1..Len(list) : list[k].status = s})

\* None (here the empty list, which "not results" treats alike) when the
\* object is missing
download_results(stored) == IF stored.exists THEN stored.data ELSE <<>>

\* Mutant of overall_status: partial_failure needs an entry that succeeded.
overall_status_needs_a_success(list) ==
    IF Count(list, "processing") > 0 THEN "processing"
    ELSE IF Count(list, "success") + Count(list, "skipped") = Len(list)
    THEN "completed"
    ELSE IF Count(list, "failed") > 0 /\ Count(list, "success") > 0
    THEN "partial_failure"
    ELSE "pending"

\* Mutant of overall_status: a failed entry is looked for first.
overall_status_failure_first(list) ==
    IF Count(list, "failed") > 0 THEN "partial_failure"
    ELSE IF Count(list, "processing") > 0 THEN "processing"
    ELSE IF Count(list, "success") + Count(list, "skipped") = Len(list)
    THEN "completed"
    ELSE "pending"

overall_status(list) ==
    IF Count(list, "processing") > 0 THEN "processing"
    ELSE IF Count(list, "success") + Count(list, "skipped") = Len(list)
    THEN "completed"
    ELSE IF Count(list, "failed") > 0 THEN "partial_failure"
    ELSE "pending"

\* Mutant of progress: failed entries are not counted as done.
progress_without_failed(list) ==
    IF Len(list) > 0
    THEN [num |-> Count(list, "success") + Count(list, "skipped"),
          den |-> Len(list)]
    ELSE [num |-> 0, den |-> 1]

progress(list) ==
    IF Len(list) > 0
    THEN [num |-> Count(list, "success") + Count(list, "failed")
                      + Count(list, "skipped"),
          den |-> Len(list)]
    ELSE [num |-> 0, den |-> 1]

get_job_status(stored) ==
    LET list == download_results(stored)
    IN IF list = <<>>
       THEN [status |-> "pending", total_tasks |-> 0, completed_tasks |-> 0,
             failed_tasks |-> 0, skipped_tasks |-> 0,
             progress |-> [num |-> 0, den |-> 1]]
       ELSE [status |-> overall_status(list),
             total_tasks |-> Len(list),
             completed_tasks |-> Count(list, "success"),
             failed_tasks |-> Count(list, "failed"),
             skipped_tasks |-> Count(list, "skipped"),
             processing_tasks |-> Count(list, "processing"),
             progress |-> progress(list)]

InitStatus ==
    /\ NoProcess
    /\ tasks = <<>>
    /\ tasks_object = "array"
    /\ persisted \in {[exists |-> FALSE, data |-> <<>>]}
                     \cup {[exists |-> TRUE, data |-> l] : l \in ResultLists}
    /\ status_report = NoReport
    /\ job_inputs = NoInputs

GetJobStatus ==
    /\ status_report' = get_job_status(persisted)
    /\ UNCHANGED <<tasks, tasks_object, run, job_inputs, id_probe, drivers,
                   outs, vids, persisted, pc,
                   mainVars, exitVars, result, stageVars, workspace, faults,
                   log, histVars>>

NextStatus ==
    GetJobStatus

SpecStatus ==
    InitStatus /\ [][NextStatus]_vars

(***************************************************************************)
(* The client's S3BatchManager.upload_tasks, called with the id of one     *)
(* job, any number of times.  The argument is a list of tasks, something   *)
(* that is no list, or a list with an item that has no url; each config is *)
(* a value or None.  A put_object can fail; what was put before it stays.  *)
(***************************************************************************)
Configs == {NoField, "config_a", "config_b"}

TaskArguments ==
    {[kind |-> "list", tasks |-> l] : l \in {<<>>} \cup TaskLists}
        \cup {[kind |-> k, tasks |-> <<>>] : k \in {"not_a_list", "no_url"}}

\* the puts upload_tasks makes, in order, for its arguments
Puts(transcription_config, resource_config) ==
    <<"tasks">>
        \o (IF transcription_config # NoField THEN <<"config">> ELSE <<>>)
        \o (IF resource_config # NoField THEN <<"resources">> ELSE <<>>)

\* failed_put is the position of the put that fails, 0 when none does
Done(puts, failed_put) ==
    {puts[k] : k \in {n \in 1..Len(puts) : failed_put = 0 \/ n < failed_put}}

\* Mutant of upload_tasks: the items are looked at after the task list has
\* been put.
upload_tasks_late_check(arg, transcription_config, resource_config, failed_put) ==
    LET puts == Puts(transcription_config, resource_config)
        done == Done(puts, failed_put)
    IN IF arg.kind = "not_a_list"
       THEN /\ job_inputs' = [job_inputs EXCEPT !.last = "ValueError"]
            /\ UNCHANGED <<tasks, tasks_object>>
       ELSE IF arg.kind = "no_url"
       THEN /\ job_inputs' = [job_inputs EXCEPT !.last = "ValueError"]
            /\ tasks' = arg.tasks
            /\ tasks_object' = "array"
       ELSE /\ IF "tasks" \in done
               THEN tasks' = arg.tasks /\ tasks_object' = "array"
               ELSE UNCHANGED <<tasks, tasks_object>>
            /\ job_inputs' =
                   [config |-> IF "config" \in done
                               THEN transcription_config
                               ELSE job_inputs.config,
                    resources |-> IF "resources" \in done
                                  THEN resource_config
                                  ELSE job_inputs.resources,
                    last |-> IF failed_put \in 1..Len(puts)
                             THEN "raised" ELSE "job_id"]

upload_tasks(arg, transcription_config, resource_config, failed_put) ==
    LET puts == Puts(transcription_config, resource_config)
        done == Done(puts, failed_put)
    IN IF arg.kind # "list"
       THEN /\ job_inputs' = [job_inputs EXCEPT !.last = "ValueError"]
            /\ UNCHANGED <<tasks, tasks_object>>
       ELSE /\ IF "tasks" \in done
               THEN tasks' = arg.tasks /\ tasks_object' = "array"
               ELSE UNCHANGED <<tasks, tasks_object>>
            /\ job_inputs' =
                   [config |-> IF "config" \in done
                               THEN transcription_config
                               ELSE job_inputs.config,
                    resources |-> IF "resources" \in done
                                  THEN resource_config
                                  ELSE job_inputs.resources,
                    last |-> IF failed_put \in 1..Len(puts)
                             THEN "raised" ELSE "job_id"]

UploadTasks ==
    /\ \E arg \in TaskArguments, transcription_config \in Configs,
          resource_config \in Configs, failed_put \in 0..3 :
           upload_tasks(arg, transcription_config, resource_config,
                        failed_put)
    /\ UNCHANGED <<run, status_report, id_probe, drivers, outs, vids,
                   persisted, pc, mainVars,
                   exitVars, result, stageVars, workspace, faults, log,
                   histVars>>

InitClient ==
    /\ NoProcess
    /\ tasks = <<>>
    /\ tasks_object = "absent"
    /\ persisted = [exists |-> FALSE, data |-> <<>>]
    /\ status_report = NoReport
    /\ job_inputs = NoInputs

NextClient ==
    UploadTasks

SpecClient ==
    InitClient /\ [][NextClient]_vars

(***************************************************************************)
(* The gate of process_video on its own: a driver at the gate of a one     *)
(* task job, with any set of output objects in the bucket and any prior    *)
(* result list (entries of any video id and status) loaded.                *)
(***************************************************************************)
MaxPrior ==
    2

OutputKeys ==
    {<<channel, video_id, kind>> :
        channel \in Channels, video_id \in VideoIds, kind \in {"md", "json"}}

PriorEntries ==
    {[video_id |-> v, status |-> s] :
        v \in VideoIds, s \in {"success", "failed", "skipped", "processing"}}

PriorLists == {<<>>} \cup SeqsUpTo(PriorEntries, MaxPrior)

InitGate ==
    /\ \E u \in {UrlA, UrlB}, channel \in Channels :
        /\ tasks = <<Task(u)>>
        /\ result = [url |-> u, error |-> NoField,
                     video_id |-> extract_video_id(u),
                     status |-> "processing", channel |-> channel]
        /\ log = <<[NoLog EXCEPT !.channel = channel]>>
    /\ tasks_object = "array"
    /\ outs \in SUBSET OutputKeys
    /\ outs0 = outs
    /\ vids = {}
    /\ existing_results \in PriorLists
    /\ persisted = [exists |-> TRUE, data |-> existing_results]
    /\ run = 1
    /\ pc = "pv_gate"
    /\ outcome = "none"
    /\ exit_code = "none"
    /\ results = <<>>
    /\ any_failures = FALSE
    /\ i = 1
    /\ attempt = 1
    /\ transcription_outputs = NoOutputs
    /\ md_uploaded = FALSE
    /\ workspace = FALSE
    /\ faults = 0
    /\ prev = [outcome |-> "none", success |-> {}]
    /\ checkpointed = {}
    /\ recorded = {}
    /\ recordedBefore = {}
    /\ lost = NoLoss
    /\ foreign = {}
    /\ id_probe = NoProbe
    /\ drivers = NoDrivers
    /\ status_report = NoReport
    /\ job_inputs = NoInputs

NextGate ==
    Gate

SpecGate ==
    InitGate /\ [][NextGate]_vars

(***************************************************************************)
(* Jobs whose tasks object is missing or is no task list, and processes    *)
(* whose download of it fails: main() calls sys.exit(1), or dies of the    *)
(* TypeError of len(tasks), before the task loop.                          *)
(***************************************************************************)
InitSetup ==
    /\ NoProcess
    /\ tasks_object \in TasksObjectKinds
    /\ tasks \in (IF tasks_object = "array" THEN TaskLists ELSE {<<>>})
    /\ persisted = [exists |-> FALSE, data |-> <<>>]
    /\ status_report = NoReport
    /\ job_inputs = NoInputs

LoadTasksFails ==
    /\ pc \in {"idle", "exited"}
    /\ run < MaxRuns
    /\ \E fetched \in BOOLEAN :
        /\ IF fetched THEN NoFault ELSE Fault
        /\ LoadTasks(tasks_object, fetched) # "ok"
    /\ run' = run + 1
    /\ existing_results' = <<>>
    /\ results' = <<>>
    /\ any_failures' = FALSE
    /\ i' = 1
    /\ pc' = "exited"
    /\ outcome' = "fatal"
    /\ exit_code' = "1"
    /\ result' = NoResult
    /\ workspace' = FALSE
    /\ log' = <<>>
    /\ outs0' = outs
    /\ prev' = [outcome |-> outcome, success |-> Successes(results)]
    /\ recordedBefore' = recorded
    /\ UNCHANGED <<tasks, tasks_object, outs, vids, persisted, stageVars,
                   checkpointed, recorded, lost, status_report,
                   job_inputs, foreign, id_probe,
                   drivers>>

NextSetup ==
    \/ Next
    \/ LoadTasksFails

SpecSetup ==
    InitSetup /\ [][NextSetup]_vars

(***************************************************************************)
(* process_video and the task loop as functions of what the environment    *)
(* did: oc = [channel, fault, md_up, json_up] is the metadata answer and   *)
(* the stage that failed (with the uploads that went through) for one      *)
(* task.  They give the result list a run would produce under other        *)
(* environment answers.                                                    *)
(***************************************************************************)
process_video(task, oc, bucket, prior) ==
    LET video_id == extract_video_id(task.url)
        r0 == [url |-> task.url, error |-> task.error,
               video_id |-> video_id, status |-> "processing",
               channel |-> oc.channel]
        failed == [r0 EXCEPT !.status = "failed",
                             !.error = ErrorMessage(oc.fault)]
        uploaded ==
            bucket
            \cup (IF oc.md_up THEN {md_key(oc.channel, video_id)} ELSE {})
            \cup (IF oc.json_up THEN {json_key(oc.channel, video_id)} ELSE {})
    IN IF GateDecision(bucket, prior, oc.channel, video_id) # "run"
       THEN [result |-> [r0 EXCEPT !.status = "skipped"], outs |-> bucket]
       ELSE IF oc.fault \in {"download", "upload_video", "extract",
                             "transcribe"}
       THEN [result |-> failed, outs |-> bucket]
       ELSE IF oc.md_up /\ oc.json_up
       THEN [result |-> [r0 EXCEPT !.status = "success"], outs |-> uploaded]
       ELSE [result |-> failed, outs |-> uploaded]

RECURSIVE main_loop(_, _, _, _, _)
main_loop(ts, ocs, bucket, prior, acc) ==
    IF Len(acc) = Len(ts)
    THEN [results |-> acc, outs |-> bucket]
    ELSE LET k == Len(acc) + 1
             r == process_video(ts[k], ocs[k], bucket, prior)
         IN main_loop(ts, ocs, r.outs, prior, Append(acc, r.result))

\* The stage-by-stage actions and the functions above agree at every loop head.
LoopAgrees ==
    pc = "loop" =>
        LET r == main_loop(SubSeq(tasks, 1, i - 1), log, outs0,
                           existing_results, <<>>)
        IN r.results = results /\ r.outs = outs

(***************************************************************************)
(* Claims                                                                  *)
(***************************************************************************)
\* C1: after a run that went to completion, the next run on the same job
\* decides skip for every task the earlier run ended with success, and
\* executes no pipeline stage for it.
C1_SecondRunSkips ==
    prev.outcome = "completed" =>
        \A k \in prev.success :
            /\ k <= Len(log) => log[k].stages = {} /\ log[k].gate # "run"
            /\ k <= Len(results) => results[k].status = "skipped"

C1_Witness ==
    /\ prev.outcome = "completed"
    /\ outcome = "completed"
    /\ \E k \in prev.success : log[k].gate = "skip_results"
    /\ \E k \in prev.success : log[k].gate = "skip_outputs"

\* C2: once some run has persisted a success Result for a task, no later
\* run executes a pipeline stage for that task.
C2_SuccessTerminal ==
    \A k \in recordedBefore : k <= Len(log) => log[k].stages = {}

\* C3 (as claimed): in a run that reaches the end of the task list, when the
\* pipeline of task N failed, every other position holds the result it would
\* have had without the failure of N.
WithoutFailure(N) ==
    main_loop(tasks,
              [log EXCEPT ![N].fault = "none", ![N].md_up = TRUE,
                          ![N].json_up = TRUE],
              outs0, existing_results, <<>>).results

C4_BadUrlFailsTaskOnly ==
    outcome \in {"completed", "error"} =>
        /\ Len(results) = Len(tasks)
        /\ \A k \in 1..Len(results) :
               extract_video_id(tasks[k].url) = NoId =>
                   /\ results[k].status = "failed"
                   /\ results[k].error # NoField

C6_Monotonic ==
    [][Len(persisted'.data) >= Len(persisted.data)]_vars

\* C7: after a kill the results object still holds an entry for every task
\* that this run or an earlier run had checkpointed.
C7_CrashKeepsCompleted ==
    outcome = "killed" =>
        \A k \in checkpointed : k <= Len(persisted.data)

\* C8: when a run ends as a completed job run, the persisted list is as long
\* as the task list and its k-th Result carries the k-th Task's fields.
C8_OneResultPerTask ==
    outcome = "completed" =>
        /\ persisted = save_results(results)
        /\ Len(persisted.data) = Len(tasks)
        /\ \A k \in 1..Len(tasks) :
               /\ persisted.data[k].url = tasks[k].url
               /\ persisted.data[k].video_id
                      = extract_video_id(tasks[k].url)
               /\ persisted.data[k].status
                      \in {"success", "failed", "skipped"}

C8_Witness ==
    /\ outcome = "completed"
    /\ Len(tasks) = 2
    /\ results[1].status = "skipped"
    /\ results[2].status = "failed"

\* C9 (as claimed): a task whose loaded prior Result is failed and whose two
\* output objects do not both exist is decided run.
AtGateOfFailed ==
    /\ pc = "pv_gate"
    /\ i <= Len(existing_results)
    /\ existing_results[i].status = "failed"
    /\ ~(/\ <<result.channel, result.video_id, "md">> \in outs
         /\ <<result.channel, result.video_id, "json">> \in outs)

SuccessForSameVideo ==
    \E k \in 1..Len(existing_results) :
        /\ existing_results[k].video_id = result.video_id
        /\ existing_results[k].status = "success"

C9_FailedIsRetried ==
    [][(AtGateOfFailed /\ pc' # "exited")
           => (pc' = "pv_download" /\ workspace')]_vars

\* C9 (amended): ... and no prior Result with the same video id is success.
C9_FailedIsRetriedUnlessDone ==
    [][(/\ AtGateOfFailed
        /\ ~SuccessForSameVideo
        /\ pc' # "exited")
           => (pc' = "pv_download" /\ workspace')]_vars

C9_Witness ==
    /\ pc = "pv_upload_video"
    /\ i <= Len(existing_results)
    /\ existing_results[i].status = "failed"
    /\ ~SuccessForSameVideo
    /\ "download" \in log[i].stages

\* C10: when an earlier task of the list with the same video id ran and
\* ended success in this run, the later one is skipped without any stage.
C10_CollisionSkipped ==
    \A j \in 1..Len(results) : \A k \in 1..Len(log) :
        (/\ j < k
         /\ extract_video_id(tasks[j].url) = extract_video_id(tasks[k].url)
         /\ log[j].gate = "run"
         /\ results[j].status = "success")
            => /\ log[k].stages = {}
               /\ k <= Len(results) => results[k].status = "skipped"

\* C11: when the only thing that went wrong in the job's history is that the
\* output objects, or else the results object, got lost after some run had
\* persisted a success Result for a task, the run that follows the loss
\* decides skip for that task and executes no pipeline stage for it.
C11_DualSourceResilience ==
    (/\ lost.what # "none"
     /\ run = lost.run + 1
     /\ faults = 1)
        => \A k \in recordedBefore :
               k <= Len(log) => log[k].gate # "run" /\ log[k].stages = {}

\* C12 (as claimed): a run that ends by itself exits 1 exactly when one of
\* its tasks ended failed, and 0 otherwise.
HasFailed(list) ==
    \E k \in 1..Len(list) : list[k].status = "failed"

C12_ExitOneIffFailed ==
    exit_code # "none" =>
        exit_code = (IF HasFailed(results) THEN "1" ELSE "0")

\* C12 (amended): a run that reaches the end of its task list exits 1
\* exactly when one of its tasks ended failed and 0 otherwise; a run ended
\* by an interrupt or by an exception escaping the loop exits 1 whatever its
\* results are; exit code 0 is only given with a Result for every task, each
\* success or skipped.
C12_ExitCode ==
    /\ outcome = "completed" =>
           exit_code = (IF HasFailed(results) THEN "1" ELSE "0")
    /\ outcome \in {"interrupt", "error"} => exit_code = "1"
    /\ exit_code = "0" =>
           /\ Len(results) = Len(tasks)
           /\ \A k \in 1..Len(results) :
                  results[k].status \in {"success", "skipped"}

C12_Witness ==
    /\ outcome = "completed"
    /\ exit_code = "1"
    /\ Len(results) = 2
    /\ results[1].status = "skipped"
    /\ results[2].status = "failed"

\* C13: a process started on a job whose tasks object is absent, is not
\* JSON or is not an array, or a process whose download of it fails, exits
\* with code 1 without a gate decision, a pipeline stage or a write to the
\* results object, the output bucket or the video bucket.
C13_MissingTasksFatal ==
    [][run' = run + 1 =>
          /\ tasks_object # "array" => outcome' = "fatal"
          /\ outcome' = "fatal" =>
                 /\ pc' = "exited"
                 /\ exit_code' = "1"
                 /\ log' = <<>>
                 /\ ~workspace'
                 /\ persisted' = persisted
                 /\ outs' = outs
                 /\ vids' = vids]_vars

C13_Witness ==
    /\ outcome = "fatal"
    /\ exit_code = "1"
    /\ tasks_object = "array"
    /\ persisted.exists
    /\ Len(persisted.data) = 2

\* C14: for a non-empty result list get_job_status answers processing when
\* some entry is processing; else completed when every entry is success or
\* skipped; else partial_failure when some entry is failed; else pending.
Reported ==
    status_report # NoReport

Has(list, s) ==
    \E k \in 1..Len(list) : list[k].status = s

C14_StatusPrecedence ==
    (Reported /\ persisted.exists /\ persisted.data # <<>>) =>
        LET list == persisted.data
        IN status_report.status =
               IF Has(list, "processing") THEN "processing"
               ELSE IF \A k \in 1..Len(list) :
                           list[k].status \in {"success", "skipped"}
               THEN "completed"
               ELSE IF Has(list, "failed") THEN "partial_failure"
               ELSE "pending"

C14_Witness ==
    /\ Reported
    /\ Has(persisted.data, "processing")
    /\ Has(persisted.data, "failed")
    /\ status_report.status = "processing"

\* C15: progress is the number of success, failed and skipped entries over
\* the number of entries; [success, failed, skipped] gives progress 1 and
\* partial_failure, [success, success] gives completed, and a missing or
\* empty list gives pending with every count 0 and progress 0.
StatusesOf(list) ==
    [k \in 1..Len(list) |-> list[k].status]

C15_CountsAndProgress ==
    Reported =>
        LET list == persisted.data
            done == {k \in 1..Len(list) :
                        list[k].status \in {"success", "failed", "skipped"}}
        IN /\ (persisted.exists /\ list # <<>>) =>
                  /\ status_report.progress.num = Cardinality(done)
                  /\ status_report.progress.den = Len(list)
                  /\ status_report.total_tasks = Len(list)
           /\ (~persisted.exists \/ list = <<>>) =>
                  /\ status_report.status = "pending"
                  /\ status_report.total_tasks = 0
                  /\ status_report.completed_tasks = 0
                  /\ status_report.failed_tasks = 0
                  /\ status_report.skipped_tasks = 0
                  /\ status_report.progress.num = 0
           /\ StatusesOf(list) = <<"success", "failed", "skipped">> =>
                  /\ status_report.progress.num = status_report.progress.den
                  /\ status_report.status = "partial_failure"
           /\ StatusesOf(list) = <<"success", "success">> =>
                  status_report.status = "completed"

C15_Witness ==
    /\ Reported
    /\ StatusesOf(persisted.data) = <<"success", "failed", "skipped">>
    /\ status_report.progress = [num |-> 3, den |-> 3]

\* C16: a backend error is not taken for absence: the gate decides run only
\* when the two output objects of the task are not both in the bucket, and a
\* process enters the task loop with the results the results object holds.
C16_ErrorIsNotAbsence ==
    [][/\ (pc = "pv_gate" /\ pc' = "pv_download") =>
              ~(/\ <<result.channel, result.video_id, "md">> \in outs
                /\ <<result.channel, result.video_id, "json">> \in outs)
       /\ (run' = run + 1 /\ pc' = "loop" /\ persisted.exists) =>
              existing_results' = persisted.data]_vars

\* C17: a pipeline stage of a task is started only by the task the driver is
\* at, only when every earlier stage of that task has been run and none has
\* failed; the order is download, video upload, audio extraction,
\* transcription, output uploads.
Rank(stage) ==
    CASE stage = "download" -> 1
      [] stage = "upload_video" -> 2
      [] stage = "extract" -> 3
      [] stage = "transcribe" -> 4
      [] OTHER -> 5

StagesOf(l, k) ==
    IF k <= Len(l) THEN l[k].stages ELSE {}

C17_StageOrder ==
    [][\A k \in 1..Len(log') :
           \A s \in StagesOf(log', k) \ StagesOf(log, k) :
               /\ k = i
               /\ log[k].gate = "run"
               /\ log[k].fault = "none"
               /\ \A r \in 1..(Rank(s) - 1) :
                      \E t \in StagesOf(log, k) : Rank(t) = r]_vars

C17_Witness ==
    /\ pc = "pv_return"
    /\ result.status = "failed"
    /\ log[i].fault = "extract"
    /\ log[i].stages = {"download", "upload_video", "extract"}

\* C18: a task that process_video has returned is success only when both
\* output uploads of this execution succeeded; when exactly one succeeded
\* the task is failed with the upload error and the uploaded object is still
\* in the output bucket.
Returned(k) ==
    \/ k <= Len(results)
    \/ k = i /\ pc = "pv_return"

ResultAt(k) ==
    IF k <= Len(results) THEN results[k] ELSE result

C18_SuccessNeedsBothUploads ==
    \A k \in 1..Len(log) :
        Returned(k) =>
            LET r == ResultAt(k)
                md == <<r.channel, r.video_id, "md">>
                json == <<r.channel, r.video_id, "json">>
            IN /\ r.status = "success" =>
                      /\ log[k].md_up /\ log[k].json_up
                      /\ md \in outs /\ json \in outs
               /\ (log[k].md_up # log[k].json_up) =>
                      /\ r.status = "failed"
                      /\ r.error
                             = "Failed to upload transcription outputs to S3"
                      /\ log[k].md_up => md \in outs
                      /\ log[k].json_up => json \in outs

C18_Witness ==
    /\ Len(results) >= 1
    /\ results[1].status = "failed"
    /\ log[1].md_up
    /\ ~log[1].json_up
    /\ <<results[1].channel, results[1].video_id, "md">> \in outs
    /\ <<results[1].channel, results[1].video_id, "json">> \notin outs

InPipeline ==
    pc \in {"pv_download", "pv_upload_video", "pv_extract", "pv_transcribe",
            "pv_upload_md", "pv_upload_json"}

C20_WorkspaceReleased ==
    /\ (pc \in {"loop", "pv_meta", "pv_gate", "pv_return"}) => ~workspace
    /\ (pc = "exited" /\ outcome \in {"completed", "error", "interrupt"})
           => ~workspace
    /\ InPipeline => workspace

C20_Witness ==
    /\ outcome = "interrupt"
    /\ ~workspace
    /\ Len(log) = Len(results) + 1
    /\ log[Len(log)].gate = "run"
    /\ "transcribe" \in log[Len(log)].stages

\* C21: a task is failed by its download, its audio extraction or one of
\* its uploads only in the last of MaxAttempts attempts of that operation.
IOFaults ==
    {"download", "extract", "upload_video", "upload_outputs"}

StageFails ==
    /\ i <= Len(log)
    /\ Len(log') = Len(log)
    /\ log[i].fault = "none"
    /\ log'[i].fault \in IOFaults

C21_BoundedRetry ==
    [][StageFails => attempt = MaxAttempts]_vars

\* C22: the driver comes to the transcription of a task only when the task
\* has not been transcribed in this run, and one step of transcription
\* leaves it: to the output uploads, or to a failed Result when the engine
\* raised.
C22_TranscribeOnce ==
    [][/\ (pc # "pv_transcribe" /\ pc' = "pv_transcribe") =>
              "transcribe" \notin log[i].stages
       /\ (pc = "pv_transcribe" /\ pc' # "exited") =>
              /\ "transcribe" \notin log[i].stages
              /\ "transcribe" \in log'[i].stages
              /\ pc' \in {"pv_upload_md", "pv_return"}
              /\ pc' = "pv_return" =>
                     /\ result'.status = "failed"
                     /\ result'.error = "MST transcription failed"
                     /\ log'[i].fault = "transcribe"]_vars

C22_Witness ==
    /\ pc = "pv_return"
    /\ i <= Len(log)
    /\ log[i].fault = "transcribe"
    /\ result.status = "failed"
    /\ attempt = 1

\* C23: the step in which the driver is interrupted writes the result list
\* it holds at that moment to the results object and ends the process; until
\* a new process is started nothing is processed or written any more.
C23_SaveOnInterrupt ==
    [][/\ (outcome # "interrupt" /\ outcome' = "interrupt") =>
              /\ results' = results
              /\ Len(results) = i - 1
              /\ persisted' = [exists |-> TRUE, data |-> results]
              /\ pc' = "exited"
       /\ outcome = "interrupt" =>
              \/ run' = run + 1
              \/ UNCHANGED <<log, results, persisted, outs, vids>>]_vars

C23_Witness ==
    /\ outcome = "interrupt"
    /\ Len(tasks) = 2
    /\ Len(log) = 2
    /\ Len(results) = 1
    /\ persisted.data = results
    /\ run = 2

\* C24: when a run has ended by an interrupt, every task of the run for
\* which a pipeline stage was started has its Result, success or failed, in
\* the saved list.
C24_CooperativeCancellation ==
    outcome = "interrupt" =>
        \A k \in 1..Len(log) :
            log[k].stages # {} =>
                /\ k <= Len(persisted.data)
                /\ persisted.data[k].status \in {"success", "failed"}

\* C25: once the task list of the job is written it does not change, and
\* neither does a config once it is written.
C25_InputsImmutable ==
    [][/\ tasks_object = "array" =>
              tasks' = tasks /\ tasks_object' = tasks_object
       /\ job_inputs.config # NoField =>
              job_inputs'.config = job_inputs.config
       /\ job_inputs.resources # NoField =>
              job_inputs'.resources = job_inputs.resources]_vars

\* C26: no task of the job is decided skip on output objects that another
\* job has written.
C26_KeysHoldJobId ==
    \A k \in 1..Len(log) :
        log[k].gate = "skip_outputs" =>
            /\ md_key(log[k].channel, extract_video_id(tasks[k].url))
                   \notin foreign
            /\ json_key(log[k].channel, extract_video_id(tasks[k].url))
                   \notin foreign

\* C27: every step that changes the results object leaves in it the whole
\* result list the driver holds after the step: the Results of the first
\* tasks of the list, in task order, each with a final status.
C27_SnapshotCheckpoints ==
    [][persisted' # persisted =>
          /\ persisted'.exists
          /\ persisted'.data = results'
          /\ Len(results') <= Len(tasks)
          /\ \A k \in 1..Len(results') :
                 /\ results'[k].url = tasks[k].url
                 /\ results'[k].status \in {"success", "failed", "skipped"}
          /\ \A k \in 1..Len(results) : results'[k] = results[k]]_vars

C27_Witness ==
    /\ run = 2
    /\ pc = "pv_download"
    /\ Len(tasks) = 2
    /\ Len(results) = 1
    /\ persisted.data = results
    /\ Len(existing_results) = 2

\* C28: the gate of a task decides only after the channel is resolved; a
\* task whose channel is "unknown" and whose pipeline did not raise ends
\* skipped or success with channel "unknown" in its Result; the gate looks
\* at, and the pipeline writes, only keys built with the resolved channel
\* and the video id of the task.
KeysOf(channel, video_id) ==
    {<<channel, video_id, kind>> : kind \in {"md", "json", "mp4"}}

C28_MetadataDegrades ==
    [][/\ \A k \in 1..Len(log') :
              /\ log'[k].gate # "none" => log'[k].channel \in Channels
              /\ (/\ k <= Len(results')
                  /\ log'[k].channel = "unknown"
                  /\ log'[k].fault = "none") =>
                     /\ results'[k].status \in {"success", "skipped"}
                     /\ results'[k].channel = "unknown"
       /\ (pc = "pv_gate" /\ pc' = "pv_return") =>
              \/ KeysOf(log[i].channel, result.video_id) \ {
                     <<log[i].channel, result.video_id, "mp4">>} \subseteq outs
              \/ log'[i].gate = "skip_results"
       /\ Running =>
              (outs' \ outs) \cup (vids' \ vids)
                  \subseteq (IF i <= Len(log)
                             THEN KeysOf(log[i].channel, result.video_id)
                             ELSE {})]_vars

C28_Witness ==
    /\ Len(results) >= 1
    /\ log[1].channel = "unknown"
    /\ log[1].gate = "run"
    /\ results[1].status = "success"
    /\ results[1].channel = "unknown"
    /\ KeysOf("unknown", results[1].video_id) \subseteq outs \cup vids

\* C29: the gate decides skip exactly when both output objects of the task
\* are in the bucket or the prior list holds a success entry with the video
\* id of the task, and run otherwise; when both hold, the decision is the
\* one of the storage check.
BothOutputsStored ==
    /\ <<result.channel, result.video_id, "md">> \in outs
    /\ <<result.channel, result.video_id, "json">> \in outs

PriorSuccess ==
    \E k \in 1..Len(existing_results) :
        /\ existing_results[k].video_id = result.video_id
        /\ existing_results[k].status = "success"

C29_GateDecision ==
    (pc # "pv_gate" /\ log[1].gate # "none") =>
        /\ log[1].gate = "run" <=> (~BothOutputsStored /\ ~PriorSuccess)
        /\ BothOutputsStored => log[1].gate = "skip_outputs"
        /\ log[1].gate = "skip_results" => PriorSuccess
        /\ log[1].gate = "run" =>
               pc = "pv_download" /\ workspace /\ result.status = "processing"
        /\ log[1].gate # "run" =>
               pc = "pv_return" /\ ~workspace /\ result.status = "skipped"

C29_Witness ==
    /\ pc = "pv_download"
    /\ log[1].gate = "run"
    /\ <<result.channel, result.video_id, "md">> \in outs
    /\ <<result.channel, result.video_id, "json">> \notin outs
    /\ \E k \in 1..Len(existing_results) :
           /\ existing_results[k].video_id = result.video_id
           /\ existing_results[k].status = "skipped"
    /\ \E k \in 1..Len(existing_results) :
           /\ existing_results[k].video_id # result.video_id
           /\ existing_results[k].status = "success"

\* C30: within one run a task is pending until the gate has decided for it,
\* processing from a run decision until process_video's Result is appended,
\* and then what the Result says.  A task moves only pending -> skipped,
\* pending -> processing, processing -> success or processing -> failed; at
\* most one task is processing; a task has left pending only when all tasks
\* before it have a Result; a Result in the list does not change.
TaskState(rs, lg, k) ==
    IF k <= Len(rs) THEN rs[k].status
    ELSE IF k <= Len(lg) /\ lg[k].gate = "run" THEN "processing"
    ELSE "pending"

Moves ==
    {<<"pending", "skipped">>, <<"pending", "processing">>,
     <<"processing", "success">>, <<"processing", "failed">>}

C30_TaskStateMachine ==
    [][run' = run =>
          /\ \A k \in 1..Len(tasks) :
                 LET before == TaskState(results, log, k)
                     after == TaskState(results', log', k)
                 IN /\ before = after \/ <<before, after>> \in Moves
                    /\ after # "pending" =>
                           \A j \in 1..(k - 1) :
                               TaskState(results', log', j)
                                   \in {"skipped", "success", "failed"}
          /\ Cardinality({k \in 1..Len(tasks) :
                             TaskState(results', log', k) = "processing"})
                 <= 1
          /\ \A k \in 1..Len(results) :
                 k <= Len(results') /\ results'[k] = results[k]]_vars

C30_Witness ==
    /\ Len(tasks) = 2
    /\ Len(results) = 1
    /\ results[1].status = "skipped"
    /\ pc = "pv_transcribe"
    /\ TaskState(results, log, 2) = "processing"

\* C31: from the step in which the gate decides skip for the current task
\* until the task's Result is checkpointed (or the process ends), no
\* temporary directory exists, no pipeline stage has been invoked for the
\* task, no video, markdown or JSON object is written, and the results
\* object changes only by a save of the results list.
SkipDecisions == {"skip_outputs", "skip_results"}

Skipping ==
    /\ pc \in {"pv_gate", "pv_return"}
    /\ Len(log') = Len(log)
    /\ i <= Len(log)
    /\ log'[i].gate \in SkipDecisions

C31_SkipHasNoPipelineEffect ==
    [][Skipping =>
          /\ ~workspace /\ ~workspace'
          /\ log'[i].stages = {}
          /\ ~log'[i].md_up /\ ~log'[i].json_up
          /\ outs' = outs /\ vids' = vids
          /\ persisted' # persisted =>
                 \/ persisted' = save_results(Append(results, result))
                 \/ persisted' = save_results(results)
          /\ pc' \in {"pv_return", "loop", "exited"}
          /\ pc' \in {"pv_return", "loop"} =>
                 (IF pc' = "loop" THEN results'[i] ELSE result').status
                     = "skipped"]_vars

C31_Witness ==
    /\ pc = "loop"
    /\ i = 2
    /\ Len(results) = 1
    /\ results[1].status = "skipped"
    /\ log[1].gate = "skip_outputs"
    /\ log[1].stages = {}
    /\ persisted.data = results

(***************************************************************************)
(* Jobs whose tasks carry free-form fields.  process_video starts the      *)
(* Result as {**task, ...}: every field of the task is copied, one named   *)
(* error included.                                                         *)
(***************************************************************************)
ExtraError == "task supplied"

TasksWithFields == {[url |-> u, error |-> e] : u \in URLs,
                                               e \in {NoField, ExtraError}}

InitFields ==
    /\ NoProcess
    /\ tasks_object = "array"
    /\ tasks \in SeqsUpTo(TasksWithFields, MaxTasks)
    /\ persisted = [exists |-> FALSE, data |-> <<>>]
    /\ status_report = NoReport
    /\ job_inputs = NoInputs

NextFields == Next

SpecFields ==
    InitFields /\ [][NextFields]_vars

\* C32: every Result in the driver's list and in the results object has the
\* field error exactly when its status is failed.
ErrorIffFailed(list) ==
    \A k \in 1..Len(list) :
        list[k].error # NoField <=> list[k].status = "failed"

C32_ErrorIffFailed ==
    ErrorIffFailed(results) /\ ErrorIffFailed(persisted.data)

(***************************************************************************)
(* The client's copy of extract_video_id (transcription_client/utils.py)   *)
(* and is_valid_youtube_url, probed with urls of every marker, with id     *)
(* candidates of fewer, exactly and more than IdLen characters, with a     *)
(* character no id may hold, and with a query string after the id.         *)
(***************************************************************************)
\* Mutant of utils_extract_video_id: the second pattern is missing.
utils_extract_video_id_one_pattern(url) ==
    IF Matches(Pattern1, url) THEN SubSeq(url.tail, 1, IdLen)
    ELSE NoId

\* NoId stands for the ValueError
utils_extract_video_id(url) ==
    IF Matches(Pattern1, url) THEN SubSeq(url.tail, 1, IdLen)
    ELSE IF Matches(Pattern2, url) THEN SubSeq(url.tail, 1, IdLen)
    ELSE NoId

\* try: extract_video_id(url); return True / except ValueError: return False
is_valid_youtube_url(url) ==
    utils_extract_video_id(url) # NoId

ProbeMarkers == Pattern1 \cup Pattern2 \cup {"vimeo.com/"}

ProbeTails ==
    {Rep(c, n) \o s : c \in IdChars \cup {"!"}, n \in (IdLen - 1)..(IdLen + 1),
                      s \in {<<>>, <<"?", "t">>}}

ProbeUrls == {[marker |-> m, tail |-> t] : m \in ProbeMarkers, t \in ProbeTails}

ProbeUrl ==
    /\ \E url \in ProbeUrls :
           id_probe' = [url |-> url,
                        main |-> extract_video_id(url),
                        utils |-> utils_extract_video_id(url),
                        valid |-> is_valid_youtube_url(url)]
    /\ UNCHANGED <<tasks, tasks_object, run, status_report, job_inputs,
                   drivers, outs, vids, persisted, pc, mainVars, exitVars,
                   result, stageVars, workspace, faults, log, histVars>>

InitIds ==
    /\ NoProcess
    /\ tasks = <<>>
    /\ tasks_object = "absent"
    /\ persisted = [exists |-> FALSE, data |-> <<>>]
    /\ status_report = NoReport
    /\ job_inputs = NoInputs

NextIds ==
    ProbeUrl

SpecIds ==
    InitIds /\ [][NextIds]_vars

Drivers == {1, 2}

IdleDriver == [pc |-> "idle", i |-> 1, results |-> <<>>,
               existing_results |-> <<>>]

\* what the environment does to one task of one driver
RaceOutcomes ==
    {[channel |-> RealChannel, fault |-> "none", md_up |-> TRUE,
      json_up |-> TRUE],
     [channel |-> RealChannel, fault |-> "download", md_up |-> FALSE,
      json_up |-> FALSE],
     [channel |-> RealChannel, fault |-> "upload_outputs", md_up |-> TRUE,
      json_up |-> FALSE]}

raceFrame ==
    <<tasks, tasks_object, run, status_report, job_inputs, id_probe, vids, pc,
      mainVars, exitVars, result, stageVars, workspace, faults, log,
      histVars>>

\* main() up to the loop: the stored results are loaded, results = []
DriverStart(d) ==
    /\ drivers.proc[d].pc = "idle"
    /\ drivers' = [drivers EXCEPT
                       !.proc[d].pc = "loop",
                       !.proc[d].existing_results =
                           download_results(persisted)]
    /\ UNCHANGED <<outs, persisted>>
    /\ UNCHANGED raceFrame

\* Mutant of DriverTask: the checkpoint keeps a stored entry that says
\* success and writes its own entries elsewhere.
DriverTask_merges_stored(d) ==
    LET p == drivers.proc[d]
    IN /\ p.pc = "loop"
       /\ p.i <= Len(tasks)
       /\ extract_video_id(tasks[p.i].url) # NoId
       /\ \E oc \in RaceOutcomes :
           LET r == process_video(tasks[p.i], oc, outs, p.existing_results)
               list == Append(p.results, r.result)
               stored == download_results(persisted)
               merged == [k \in 1..Len(list) |->
                              IF k <= Len(stored)
                                 /\ stored[k].status = "success"
                              THEN stored[k] ELSE list[k]]
           IN /\ outs' = r.outs
              /\ persisted' = save_results(merged)
              /\ drivers' = [drivers EXCEPT !.proc[d].results = list,
                                            !.proc[d].i = p.i + 1,
                                            !.last_writer = d]
       /\ UNCHANGED raceFrame

\* one turn of the loop: process_video, results.append, save_results
DriverTask(d) ==
    LET p == drivers.proc[d]
    IN /\ p.pc = "loop"
       /\ p.i <= Len(tasks)
       /\ extract_video_id(tasks[p.i].url) # NoId
       /\ \E oc \in RaceOutcomes :
           LET r == process_video(tasks[p.i], oc, outs, p.existing_results)
               list == Append(p.results, r.result)
           IN /\ outs' = r.outs
              /\ persisted' = save_results(list)
              /\ drivers' = [drivers EXCEPT !.proc[d].results = list,
                                            !.proc[d].i = p.i + 1,
                                            !.last_writer = d]
       /\ UNCHANGED raceFrame

\* the loop ends, or extract_video_id raises out of it: the final save
DriverFinish(d) ==
    LET p == drivers.proc[d]
    IN /\ p.pc = "loop"
       /\ persisted' = save_results(p.results)
       /\ drivers' = [drivers EXCEPT
                          !.proc[d].pc =
                              IF p.i > Len(tasks) THEN "completed"
                              ELSE "error",
                          !.last_writer = d]
       /\ p.i <= Len(tasks) => extract_video_id(tasks[p.i].url) = NoId
       /\ UNCHANGED outs
       /\ UNCHANGED raceFrame

InitRace ==
    /\ outs = {}
    /\ vids = {}
    /\ run = 0
    /\ pc = "idle"
    /\ outcome = "none"
    /\ exit_code = "none"
    /\ existing_results = <<>>
    /\ results = <<>>
    /\ any_failures = FALSE
    /\ i = 1
    /\ result = NoResult
    /\ attempt = 1
    /\ transcription_outputs = NoOutputs
    /\ md_uploaded = FALSE
    /\ workspace = FALSE
    /\ faults = 0
    /\ log = <<>>
    /\ outs0 = {}
    /\ prev = [outcome |-> "none", success |-> {}]
    /\ checkpointed = {}
    /\ recorded = {}
    /\ recordedBefore = {}
    /\ lost = NoLoss
    /\ foreign = {}
    /\ id_probe = NoProbe
    /\ tasks \in TaskLists
    /\ tasks_object = "array"
    /\ persisted = [exists |-> FALSE, data |-> <<>>]
    /\ status_report = NoReport
    /\ job_inputs = NoInputs
    /\ drivers = [proc |-> [d \in Drivers |-> IdleDriver], last_writer |-> 0]

NextRace ==
    \E d \in Drivers :
        \/ DriverStart(d)
        \/ DriverTask(d)
        \/ DriverFinish(d)

SpecRace ==
    InitRace /\ [][NextRace]_vars

\* C34: every write of the results object by a driver puts that driver's
\* whole list in place of what was stored, and once both drivers have
\* finished the stored results are the whole list of the driver that wrote
\* last (one Result per task when that driver completed the loop), whatever
\* the other driver had recorded.
Finished(p) == p.pc \in {"completed", "error"}

C34_LastWriterWins ==
    [][/\ persisted' # persisted =>
              /\ drivers'.last_writer \in Drivers
              /\ persisted'.data
                     = drivers'.proc[drivers'.last_writer].results
       /\ (\A d \in Drivers : Finished(drivers'.proc[d])) =>
              LET w == drivers'.proc[drivers'.last_writer]
              IN /\ persisted'.data = w.results
                 /\ w.pc = "completed" =>
                        Len(persisted'.data) = Len(tasks)]_vars

C34_Witness ==
    /\ drivers.proc[1].pc = "completed"
    /\ drivers.proc[2].pc = "completed"
    /\ drivers.last_writer = 1
    /\ persisted.data = drivers.proc[1].results
    /\ \E k \in 1..Len(tasks) :
           /\ drivers.proc[2].results[k].status = "success"
           /\ persisted.data[k].status = "failed"

(***************************************************************************)
(* A driver process whose external calls all return or fail: a step of     *)
(* the process that can be taken is taken in the end.  An interrupt, a     *)
(* kill and the start of another process are up to the environment.        *)
(***************************************************************************)
ProcessStep ==
    \/ ProcessVideoStart
    \/ ProcessVideoRaises
    \/ GetMetadata
    \/ Gate
    \/ Download
    \/ UploadVideo
    \/ ExtractAudio
    \/ Transcribe
    \/ UploadMarkdown
    \/ UploadJson
    \/ Checkpoint
    \/ Finish

SpecLive ==
    Init /\ [][Next]_vars /\ WF_vars(ProcessStep)

\* C35: every run that starts comes to its end; the attempt a download or an
\* extraction is at never goes past MaxAttempts; the loop takes the tasks
\* one by one, so a run that completes has handled each task once.
C35_RunTerminates ==
    /\ Running ~> pc = "exited"
    /\ [](attempt \in 1..MaxAttempts)
    /\ [](pc \notin {"pv_download", "pv_extract"} => attempt = 1)
    /\ [](Running => /\ i = Len(results) + 1
                     /\ Len(log) \in {i - 1, i}
                     /\ Len(log) <= Len(tasks))
    /\ []((pc = "exited" /\ outcome = "completed") =>
              /\ Len(results) = Len(tasks)
              /\ Len(log) = Len(tasks)
              /\ \A k \in 1..Len(tasks) : results[k].url = tasks[k].url)

C35_Witness ==
    /\ pc = "exited"
    /\ outcome = "completed"
    /\ Len(tasks) = 2
    /\ log[1].fault = "download"
    /\ log[2].fault = "extract"
    /\ Len(results) = 2

\* C36: no Result in the driver's list, in the results it loaded or in the
\* results object has status processing: each has success, failed or
\* skipped, in every state of every run, however the run ended.
NoProcessingIn(list) ==
    \A k \in 1..Len(list) : list[k].status \in {"success", "failed", "skipped"}

C36_NoStaleProcessing ==
    /\ NoProcessingIn(results)
    /\ NoProcessingIn(persisted.data)
    /\ NoProcessingIn(existing_results)

C36_Witness ==
    /\ outcome = "interrupt"
    /\ pc = "exited"
    /\ Len(log) = 2
    /\ log[2].stages # {}
    /\ persisted.exists
    /\ Len(persisted.data) = 1
    /\ NoProcessingIn(persisted.data)

\* C37: for a stored result list that is not empty and whose entries all
\* have one of the four statuses, get_job_status does not report pending,
\* reports partial_failure exactly when no entry is processing and one is
\* failed, and reports four counts whose sum is total_tasks.
FourStatuses == {"processing", "success", "failed", "skipped"}

WellFormed(list) ==
    /\ list # <<>>
    /\ \A k \in 1..Len(list) : list[k].status \in FourStatuses

C37_NeverPending ==
    (Reported /\ persisted.exists /\ WellFormed(persisted.data)) =>
        LET list == persisted.data
            seen == {list[k].status : k \in 1..Len(list)}
        IN /\ status_report.status # "pending"
           /\ status_report.status = "partial_failure"
                  <=> ("processing" \notin seen /\ "failed" \in seen)
           /\ status_report.completed_tasks + status_report.failed_tasks
                  + status_report.skipped_tasks
                  + status_report.processing_tasks
                  = status_report.total_tasks
           /\ status_report.total_tasks = Len(list)

C37_Witness ==
    /\ Reported
    /\ persisted.exists
    /\ Len(persisted.data) = 2
    /\ \A k \in 1..2 : persisted.data[k].status = "failed"
    /\ status_report.status = "partial_failure"
    /\ status_report.failed_tasks = 2

(***************************************************************************)
(* A client that asks for the job's status while a driver runs:            *)
(* get_job_status can be called between any two steps of the driver.       *)
(***************************************************************************)
NextWatch ==
    \/ Next
    \/ GetJobStatus

SpecWatch ==
    Init /\ [][NextWatch]_vars

\* C38: when get_job_status answers completed with progress 1, every task of
\* the job's task list has a Result with status success or skipped in the
\* results object.
Answered ==
    /\ status_report' # status_report
    /\ status_report' = get_job_status(persisted)

C38_CompletionCoversJob ==
    [][(/\ Answered
        /\ status_report'.status = "completed"
        /\ status_report'.progress.num = status_report'.progress.den) =>
           \A k \in 1..Len(tasks) :
               /\ k <= Len(persisted.data)
               /\ persisted.data[k].status \in {"success", "skipped"}]_vars

\* C39: a call of upload_tasks that ends with the ValueError of the
\* validation has put nothing: the task list, the transcription config and
\* the resource config of the job are as they were before the call, and
\* absent when the job had none.
StoredInputs ==
    <<tasks_object, tasks, job_inputs.config, job_inputs.resources>>

C39_ValidateBeforeWrite ==
    [][job_inputs'.last = "ValueError" => StoredInputs' = StoredInputs]_vars

C39_Witness ==
    /\ job_inputs.last = "ValueError"
    /\ tasks_object = "absent"
    /\ job_inputs.config = NoField
    /\ job_inputs.resources = NoField

\* C40: a call of upload_tasks on a job that has no object yet, if it
\* raises, leaves the job without any object.
NoInputStored ==
    /\ tasks_object = "absent"
    /\ job_inputs.config = NoField
    /\ job_inputs.resources = NoField

C40_AllOrNothing ==
    [][(NoInputStored /\ job_inputs'.last \in {"raised", "ValueError"}) =>
           NoInputStored']_vars

====
